---- MODULE Spec2Model ----
(***************************************************************************)
(* Model of pym/bob/bundle.py: the Bundler (deterministic per-package      *)
(* tar+gzip encoding offloaded to a process pool, staging area, artifact   *)
(* map, finalize into one aggregate archive with a manifest) and the       *)
(* Unbundler.                                                              *)
(*                                                                         *)
(* Strings that the code inspects character by character (package names,   *)
(* glob patterns, hex identifiers, file paths inside a workspace) are      *)
(* sequences of one-character strings.  Paths below the staging root and   *)
(* inside the aggregate archive are sequences of components.               *)
(***************************************************************************)
EXTENDS Integers, Sequences, FiniteSets, TLC

(***************************************************************************)
(* Bounds of the model.                                                    *)
(***************************************************************************)
\* how often finalize() may be called in one behaviour (all runs together)
MaxFinalize == 1
\* how many bundle() calls may be started in one behaviour (all runs together)
MaxCalls == 3

\* the Bundler objects (runs) of this process
Runs == { "1" }
\* the worker processes of the executor
Workers == { "w1", "w2" }

(***************************************************************************)
(* Character strings.                                                      *)
(***************************************************************************)
\* the characters used, in ASCII order (str comparison is by code point)
Alphabet ==
    << "*", "-", ".", "/", "0", "1", "2", "3", "4", "5", "6", "7", "8", "9",
       "?", "a", "b", "c", "d", "e", "f", "g", "i", "l", "m", "p", "q", "r",
       "t", "x", "y", "z" >>

Ord(c) == CHOOSE i \in 1..Len(Alphabet) : Alphabet[i] = c

\* Python's str.__lt__ : lexicographic by code point, a proper prefix is less
RECURSIVE StrLess(_, _)
StrLess(a, b) ==
    IF b = << >> THEN FALSE
    ELSE IF a = << >> THEN TRUE
    ELSE IF Head(a) = Head(b) THEN StrLess(Tail(a), Tail(b))
    ELSE Ord(Head(a)) < Ord(Head(b))

\* bytes.hex(): two lowercase hex digits per byte
HexDigits ==
    << "0", "1", "2", "3", "4", "5", "6", "7", "8", "9", "a", "b", "c", "d", "e", "f" >>

RECURSIVE Hex(_)
Hex(bytes) ==
    IF bytes = << >> THEN << >>
    ELSE << HexDigits[(Head(bytes) \div 16) + 1], HexDigits[(Head(bytes) % 16) + 1] >>
         \o Hex(Tail(bytes))

\* fnmatch.fnmatch(name, pat) on POSIX, for patterns made of literals, ? and *
RECURSIVE FnMatch(_, _)
FnMatch(name, pat) ==
    IF pat = << >> THEN name = << >>
    ELSE IF Head(pat) = "*"
         THEN \/ FnMatch(name, Tail(pat))
              \/ name # << >> /\ FnMatch(Tail(name), pat)
    ELSE IF name = << >> THEN FALSE
    ELSE IF Head(pat) = "?" THEN FnMatch(Tail(name), Tail(pat))
    ELSE Head(pat) = Head(name) /\ FnMatch(Tail(name), Tail(pat))

\* list.sort() / sorted() on strings: insertion sort under StrLess
RECURSIVE InsertSorted(_, _)
InsertSorted(x, s) ==
    IF s = << >> THEN << x >>
    ELSE IF StrLess(x, Head(s)) THEN << x >> \o s
    ELSE << Head(s) >> \o InsertSorted(x, Tail(s))

RECURSIVE SortStr(_)
SortStr(s) ==
    IF s = << >> THEN << >>
    ELSE InsertSorted(Head(s), SortStr(Tail(s)))

Range(s) == { s[i] : i \in 1..Len(s) }

(***************************************************************************)
(* Archive Encoder: Bundler._bundle as a function of the workspace tree.   *)
(***************************************************************************)
\* a workspace tree maps the path of each regular file, relative to the
\* workspace, to [data, mtime, uid, gid, uname, gname, mode]
RelPaths(tree) == DOMAIN tree

\* os.path.join(root, f) for a file found by os.walk(workspace)
AbsPath(workspace, rel) == workspace \o << "/" >> \o rel

\* os.path.relpath(f, workspace) for a file below workspace
RelPath(abs, workspace) == SubSeq(abs, Len(workspace) + 2, Len(abs))

\* the orders in which os.walk may enumerate the files of a tree
WalkOrders(tree) ==
    { o \in [1..Cardinality(RelPaths(tree)) -> RelPaths(tree)] :
        \A i, j \in DOMAIN o : i # j => o[i] # o[j] }

\* tarfile.gettarinfo(f, arcname): the header tarfile.add builds from lstat
TarInfo(arcname, f) ==
    [ name |-> arcname, data |-> f.data, mode |-> f.mode, mtime |-> f.mtime,
      uid |-> f.uid, gid |-> f.gid, uname |-> f.uname, gname |-> f.gname ]

\* a filter that forgets to clear the modification time
resetKeepMtime(tarinfo) ==
    [ tarinfo EXCEPT !.uid = 0, !.gid = 0, !.uname = "root", !.gname = "root" ]

\* the filter passed to bundle.add
reset(tarinfo) ==
    [ tarinfo EXCEPT !.uid = 0, !.gid = 0, !.uname = "root", !.gname = "root",
                     !.mtime = 0 ]

\* files.append(...) in walk order, then files.sort()
SortedFiles(workspace, tree, order) ==
    SortStr([ i \in DOMAIN order |-> AbsPath(workspace, order[i]) ])

\* the bytes of bundle.tgz after a complete encode: gzip header timestamp and
\* the tar members in the order written
EncodeArchive(workspace, tree, order) ==
    LET files == SortedFiles(workspace, tree, order)
    IN  [ gzipMtime |-> 0,
          members |-> [ i \in DOMAIN files |->
                          LET rel == RelPath(files[i], workspace)
                          IN  reset(TarInfo(rel, tree[rel])) ] ]

\* hashFile(bundleFile, hashlib.sha256).hex(): collision free on the contents
Sha256Hex(content) == [ sha256 |-> content ]

(***************************************************************************)
(* The collaborators: steps, run name, exclude lists, workers.             *)
(***************************************************************************)
Steps == { "s1", "s2", "s3" }

\* step.getPackage().getName()
PackageName(s) ==
    CASE s = "s1" -> << "p" >>
      [] s = "s2" -> << "q" >>
      [] s = "s3" -> << "i", "-", "t" >>

\* step.getPackage().getRecipe().getName()
RecipeName(s) ==
    CASE s = "s1" -> << "x" >>
      [] s = "s2" -> << "y" >>
      [] s = "s3" -> << "z" >>

\* step.getPackage().getCheckoutStep().getVariantId(): s1 and s2 are two
\* recipes with the same checkout variant
VariantId(s) ==
    CASE s = "s1" -> << 177 >>
      [] s = "s2" -> << 177 >>
      [] s = "s3" -> << 42 >>

\* step.getWorkspacePath()
WorkspacePath(s) == << "/", s >>

\* the files below step.getWorkspacePath()
WorkspaceTree(s) ==
    LET f(d, m) == [ data |-> d, mtime |-> 7, uid |-> 1000, gid |-> 100,
                     uname |-> "dev", gname |-> "users", mode |-> m ]
    IN  CASE s = "s1" -> (<< "m" >> :> f("d1", 420)) @@ (<< "a", "/", "c" >> :> f("d2", 493))
          [] s = "s2" -> (<< "m" >> :> f("d1", 420))
          [] s = "s3" -> (<< "b", ".", "c" >> :> f("d3", 420))

\* the name every run is constructed with
RunName == << "r", "e", "l", "1" >>

\* the exclude lists a run may be constructed with
ExcludeLists == { << >>, << << "l", "?" >>, << "i", "-", "*" >> >> }

\* signal dispositions of SIGINT in a worker process
Dispositions == { "SIG_DFL", "SIG_IGN", "default_int_handler" }

BundleTgz == << "b", "u", "n", "d", "l", "e", ".", "t", "g", "z" >>
DotYaml == << ".", "y", "a", "m", "l" >>

NoFile == [ exists |-> FALSE ]
\* the contents of a bundle.tgz whose encode did not complete
Partial == [ partial |-> TRUE ]

(***************************************************************************)
(* State.                                                                  *)
(***************************************************************************)
VARIABLES
    cwdFile,        \* the file <cwd>/<name>.tar: [writer, members, complete]
    obj,            \* obj[r]: "none", "ok" (constructed) or "failed" (__init__ raised)
    excludes,       \* self.__excludes
    tempDir,        \* the directory self.__tempDir.name exists
    tempDirPath,    \* the directory self.__tempDirPath exists
    stagingDirs,    \* the per-package directories below self.__tempDirPath
    stagingFiles,   \* the files below self.__tempDir.name: path -> contents
    bundled,        \* self.__bundled, a dict in insertion order: <<key, value>> pairs
    fut,            \* fut[r][s]: the future of the encode submitted by bundle(s)
    worker,         \* worker[w]: [sigint, before, task, phase]
    poolBroken,     \* the executor is broken (a worker process died)
    prior,          \* the SIGINT disposition of the workers before any encode
    outcome,        \* outcome[r][s]: how the bundle(s) calls of run r have ended
    fin,            \* fin[r]: [opened, ok, failed] counts of finalize()
    nCalls,         \* bundle() calls started
    trees,          \* encoder inputs: two workspace trees with walk orders
    archives,       \* encoder outputs for trees
    bundles,        \* Unbundler.__bundles, in insertion order: [bundleFile, items]
    resolved        \* the last getFromBundle call: [variantId, result]

vars == << cwdFile, obj, excludes, tempDir, tempDirPath, stagingDirs, stagingFiles,
           bundled, fut, worker, poolBroken, prior, outcome, fin, nCalls,
           trees, archives, bundles,
                    resolved >>

bundlerVars == << cwdFile, obj, excludes, tempDir, tempDirPath, stagingDirs,
                  stagingFiles, bundled, fut, worker, poolBroken, prior, outcome,
                  fin, nCalls >>

encoderVars == << trees, archives >>

resolverVars == << bundles, resolved >>

\* no file at <cwd>/<name>.tar
NoAggregate == [ writer |-> "nobody", members |-> << >>, complete |-> FALSE ]

\* a file some other program left at <cwd>/<name>.tar
ForeignFile == [ writer |-> "other", members |-> << >>, complete |-> TRUE ]

\* no Unbundler has been constructed
NoUnbundler == [ constructed |-> FALSE, map |-> << >> ]

\* getFromBundle has not been called
NoLookup == [ kind |-> "none" ]

IdleWorker(h) ==
    [ sigint |-> h, before |-> h, task |-> << >>, phase |-> "idle" ]

InitBundler ==
    /\ cwdFile \in { NoAggregate, ForeignFile }
    /\ obj = [ r \in Runs |-> "none" ]
    /\ excludes = [ r \in Runs |-> << >> ]
    /\ tempDir = [ r \in Runs |-> FALSE ]
    /\ tempDirPath = [ r \in Runs |-> FALSE ]
    /\ stagingDirs = [ r \in Runs |-> { } ]
    /\ stagingFiles = [ r \in Runs |-> << >> ]
    /\ bundled = [ r \in Runs |-> << >> ]
    /\ fut = [ r \in Runs |-> [ s \in Steps |-> [ kind |-> "none" ] ] ]
    /\ prior \in Dispositions
    /\ worker = [ w \in Workers |-> IdleWorker(prior) ]
    /\ poolBroken = FALSE
    /\ outcome = [ r \in Runs |-> [ s \in Steps |-> { } ] ]
    /\ fin = [ r \in Runs |-> [ opened |-> 0, ok |-> 0, failed |-> 0 ] ]
    /\ nCalls = 0

(***************************************************************************)
(* Bundler.__init__                                                        *)
(***************************************************************************)
\* self.__tempDir.name: a fresh directory per object
TempDirName(r) == << "t", "m", "p", r >>

\* self.__tempDirPath, as components below the file system root
TempDirPathOf(r) == << TempDirName(r), RunName >>

\* os.path.exists(self.__bundleFile)
BundleFileExists == cwdFile # NoAggregate

Construct(r, ex) ==
    /\ obj[r] = "none"
    /\ excludes' = [ excludes EXCEPT ![r] = ex ]
    /\ tempDir' = [ tempDir EXCEPT ![r] = TRUE ]
    /\ IF BundleFileExists
         THEN /\ obj' = [ obj EXCEPT ![r] = "failed" ]
              /\ UNCHANGED tempDirPath
         ELSE /\ obj' = [ obj EXCEPT ![r] = "ok" ]
              /\ tempDirPath' = [ tempDirPath EXCEPT ![r] = TRUE ]
    /\ UNCHANGED << cwdFile, stagingDirs, stagingFiles, bundled, fut, worker,
                    poolBroken, prior, outcome, fin, nCalls, trees, archives, bundles,
                    resolved >>

(***************************************************************************)
(* Bundler.bundle up to its suspension point                               *)
(***************************************************************************)
\* an exclude test that looks at the first pattern only
ExcludedFirstOnly(name, exs) == exs # << >> /\ FnMatch(name, exs[1])

\* for e in self.__excludes: if fnmatch.fnmatch(name, e): return
Excluded(name, exs) == \E i \in DOMAIN exs : FnMatch(name, exs[i])

\* dest
Dest(r, s) == TempDirPathOf(r) \o << RecipeName(s), Hex(VariantId(s)) >>

\* one archive file for all packages, directly below self.__tempDirPath
BundleFileShared(r, s) == TempDirPathOf(r) \o << BundleTgz >>

\* bundleFile
BundleFileOf(r, s) == Dest(r, s) \o << BundleTgz >>

\* a makedirs that accepts an existing directory
MakedirsExistOk(r, s) == FALSE

\* os.makedirs(dest) raises FileExistsError
MakedirsFails(r, s) == Dest(r, s) \in stagingDirs[r]

AddOutcome(r, s, o) == outcome' = [ outcome EXCEPT ![r][s] = @ \cup { o } ]

BundleCall(r, s) ==
    /\ obj[r] = "ok"
    /\ nCalls < MaxCalls
    /\ nCalls' = nCalls + 1
    /\ IF Excluded(PackageName(s), excludes[r])
         THEN /\ AddOutcome(r, s, "skipped")
              /\ UNCHANGED << stagingDirs, fut >>
         ELSE IF MakedirsFails(r, s)
         THEN /\ AddOutcome(r, s, "FileExistsError")
              /\ UNCHANGED << stagingDirs, fut >>
         ELSE /\ stagingDirs' = [ stagingDirs EXCEPT ![r] = @ \cup { Dest(r, s) } ]
              /\ IF poolBroken
                   THEN \* the submit raises BrokenProcessPool
                        /\ AddOutcome(r, s, "BuildError:interrupted")
                        /\ UNCHANGED fut
                   ELSE /\ fut' = [ fut EXCEPT ![r][s] = [ kind |-> "queued" ] ]
                        /\ UNCHANGED outcome
    /\ UNCHANGED << cwdFile, obj, excludes, tempDir, tempDirPath, stagingFiles,
                    bundled, worker, poolBroken, prior, fin, trees, archives, bundles,
                    resolved >>

(***************************************************************************)
(* Bundler._bundle in a worker process                                     *)
(***************************************************************************)
WriteFile(r, path, content) ==
    stagingFiles' = [ stagingFiles EXCEPT ![r] = (path :> content) @@ @ ]

\* the handler installed for the duration of the encode
InstalledHandler == "default_int_handler"

\* a finally clause that puts the previous handler back
FinallyRestore(before) == before

\* the disposition set by the finally clause
FinallyDisposition(before) == "SIG_DFL"

\* a worker takes the call off the queue, installs the handler, walks the
\* workspace and opens bundleFile for writing
StartEncode(w, r, s) ==
    /\ ~poolBroken
    /\ worker[w].phase = "idle"
    /\ fut[r][s].kind = "queued"
    /\ fut' = [ fut EXCEPT ![r][s] = [ kind |-> "running" ] ]
    /\ worker' = [ worker EXCEPT ![w] = [ sigint |-> InstalledHandler,
                       before |-> worker[w].sigint, task |-> << r, s >>,
                       phase |-> "try" ] ]
    /\ WriteFile(r, BundleFileOf(r, s), Partial)
    /\ UNCHANGED << cwdFile, obj, excludes, tempDir, tempDirPath, stagingDirs,
                    bundled, poolBroken, prior, outcome, fin, nCalls, trees, archives, bundles,
                    resolved >>

\* the try block ends or is left, the finally clause runs, and the worker
\* sends the result or the exception of _bundle back
LeaveTry(w, res) ==
    /\ fut' = [ fut EXCEPT ![worker[w].task[1]][worker[w].task[2]] = res ]
    /\ worker' = [ worker EXCEPT ![w].phase = "idle", ![w].task = << >>,
                       ![w].sigint = FinallyDisposition(worker[w].before) ]

\* the archive is written completely and hashed
EncodeOk(w) ==
    /\ worker[w].phase = "try"
    /\ LET r == worker[w].task[1]
           s == worker[w].task[2]
       IN  \E order \in WalkOrders(WorkspaceTree(s)) :
             LET a == EncodeArchive(WorkspacePath(s), WorkspaceTree(s), order)
             IN  /\ WriteFile(r, BundleFileOf(r, s), a)
                 /\ LeaveTry(w, [ kind |-> "ok", digest |-> Sha256Hex(a) ])
    /\ UNCHANGED << cwdFile, obj, excludes, tempDir, tempDirPath, stagingDirs,
                    bundled, poolBroken, prior, outcome, fin, nCalls,
                    trees, archives, bundles,
                    resolved >>

\* tarfile.TarError or OSError inside the try block
EncodeError(w) ==
    /\ worker[w].phase = "try"
    /\ LeaveTry(w, [ kind |-> "BuildError" ])
    /\ UNCHANGED << cwdFile, obj, excludes, tempDir, tempDirPath, stagingDirs,
                    stagingFiles, bundled, poolBroken, prior, outcome, fin,
                    nCalls, trees, archives, bundles,
                    resolved >>

\* the worker process dies: the executor breaks, every pending future fails
\* with BrokenProcessPool and the other workers are terminated
BreakPool ==
    /\ poolBroken' = TRUE
    /\ fut' = [ r \in Runs |-> [ s \in Steps |->
                  IF fut[r][s].kind \in { "queued", "running" }
                    THEN [ kind |-> "BrokenProcessPool" ] ELSE fut[r][s] ] ]
    /\ worker' = [ w \in Workers |-> [ worker[w] EXCEPT !.phase = "dead" ] ]

\* SIGINT is delivered to worker w
Sigint(w) ==
    /\ worker[w].phase # "dead"
    /\ worker[w].sigint # "SIG_IGN"
    /\ IF worker[w].phase = "try" /\ worker[w].sigint = "default_int_handler"
         THEN \* KeyboardInterrupt is raised inside the try block
              /\ LeaveTry(w, [ kind |-> "KeyboardInterrupt" ])
              /\ UNCHANGED poolBroken
         ELSE \* SIG_DFL kills the process; KeyboardInterrupt outside of a
              \* call ends the worker's loop
              BreakPool
    /\ UNCHANGED << cwdFile, obj, excludes, tempDir, tempDirPath, stagingDirs,
                    stagingFiles, bundled, prior, outcome, fin, nCalls, trees,
                    archives, bundles,
                    resolved >>

\* the exceptions the await in bundle() raises when the future of a call
\* that no worker has taken yet is cancelled: the future returned by
\* run_in_executor is cancelled with it and raises asyncio.CancelledError,
\* which is concurrent.futures.CancelledError before Python 3.8 and a
\* class of its own, derived from BaseException, from Python 3.8 on
CancelledKinds == { "CancelledError", "asyncio.CancelledError" }

\* the pending future of bundle(s) is cancelled
Cancel(r, s, k) ==
    /\ fut[r][s].kind = "queued"
    /\ fut' = [ fut EXCEPT ![r][s] = [ kind |-> k ] ]
    /\ UNCHANGED << cwdFile, obj, excludes, tempDir, tempDirPath, stagingDirs,
                    stagingFiles, bundled, worker, poolBroken, prior, outcome, fin,
                    nCalls, trees, archives, bundles, resolved >>

(***************************************************************************)
(* Bundler.bundle after its suspension point                               *)
(***************************************************************************)
Keys(d) == { d[i][1] : i \in DOMAIN d }

\* d[k] = v on a dict: a new key is appended, an old key keeps its place
DictSet(d, k, v) ==
    IF k \in Keys(d)
      THEN [ i \in DOMAIN d |-> IF d[i][1] = k THEN << k, v >> ELSE d[i] ]
      ELSE Append(d, << k, v >>)

\* the position of key k in the dict
DictIndex(d, k) == CHOOSE i \in DOMAIN d : d[i][1] = k

\* a record whose digest is that of the file before the archive was written
ArtifactHashedEarly(r, s, digest) ==
    [ package |-> RecipeName(s), digest |-> Sha256Hex(Partial),
      bundleFile |-> BundleFileOf(r, s) ]

\* the value stored under the variant id: (recipe name, digest, bundleFile)
Artifact(r, s, digest) ==
    [ package |-> RecipeName(s), digest |-> digest, bundleFile |-> BundleFileOf(r, s) ]

\* an except clause that also catches the BuildError of the encode
CaughtByBundleAndBuildError == { "BrokenProcessPool", "CancelledError", "BuildError" }

\* the exception classes the except clause of bundle() turns into BuildError
CaughtByBundle == { "BrokenProcessPool", "CancelledError" }

\* how bundle() ends when the awaited future has the result res
OutcomeOf(res) ==
    IF res.kind = "ok" THEN "ok"
    ELSE IF res.kind \in CaughtByBundle THEN "BuildError:interrupted"
    ELSE IF res.kind = "BuildError" THEN "BuildError:encode"
    ELSE res.kind

Resume(r, s) ==
    /\ fut[r][s].kind \notin { "none", "queued", "running" }
    /\ fut' = [ fut EXCEPT ![r][s] = [ kind |-> "none" ] ]
    /\ AddOutcome(r, s, OutcomeOf(fut[r][s]))
    /\ IF fut[r][s].kind = "ok"
         THEN bundled' = [ bundled EXCEPT ![r] =
                  DictSet(@, Hex(VariantId(s)), Artifact(r, s, fut[r][s].digest)) ]
         ELSE UNCHANGED bundled
    /\ UNCHANGED << cwdFile, obj, excludes, tempDir, tempDirPath, stagingDirs,
                    stagingFiles, worker, poolBroken, prior, fin, nCalls, trees,
                    archives, bundles,
                    resolved >>

(***************************************************************************)
(* Bundler.finalize                                                        *)
(***************************************************************************)
\* the items in insertion order, without sorted()
UnsortedItems(d) == d

\* sorted(self.__bundled.items()): the keys are distinct, so by key
SortedItems(d) ==
    LET keys == SortStr([ i \in DOMAIN d |-> d[i][1] ])
    IN  [ i \in DOMAIN keys |-> d[DictIndex(d, keys[i])] ]

RECURSIVE SeqOf(_)
SeqOf(S) ==
    IF S = { } THEN << >>
    ELSE LET x == CHOOSE y \in S : TRUE
         IN  << x >> \o SeqOf(S \ { x })

\* a finalize that packs every bundle.tgz found in the staging area
ItemsFromStaging(r) ==
    LET ps == SeqOf({ p \in DOMAIN stagingFiles[r] : p[Len(p)] = BundleTgz })
    IN  [ i \in DOMAIN ps |->
            << ps[i][4], [ package |-> ps[i][3],
                           digest |-> Sha256Hex(stagingFiles[r][ps[i]]),
                           bundleFile |-> ps[i] ] >> ]

\* the items finalize() iterates over
ItemsToPack(r) == SortedItems(bundled[r])

\* the list dumped as the manifest
ManifestOf(items) ==
    [ i \in DOMAIN items |-> [ vid |-> items[i][1],
                               digestSHA256 |-> items[i][2].digest,
                               name |-> items[i][2].package ] ]

\* os.path.relpath(path, start) for a path below start, by components
RelTo(path, start) == SubSeq(path, Len(start) + 1, Len(path))

\* a member stored under the file name alone
MemberOfFlat(r, item) ==
    [ arcname |-> << BundleTgz >>,
      content |-> stagingFiles[r][item[2].bundleFile] ]

\* the member bundle_tar.add stores for one item
MemberOf(r, item) ==
    [ arcname |-> RelTo(item[2].bundleFile, << TempDirName(r) >>),
      content |-> stagingFiles[r][item[2].bundleFile] ]

\* bundleConfig
BundleConfig == RunName \o DotYaml

BundleConfigPath(r) == TempDirPathOf(r) \o << BundleConfig >>

ManifestMember(manifest) ==
    [ arcname |-> << RunName, BundleConfig >>, content |-> [ manifest |-> manifest ] ]

RECURSIVE SumOpened(_)
SumOpened(rs) ==
    IF rs = { } THEN 0
    ELSE LET r == CHOOSE x \in rs : TRUE
         IN  fin[r].opened + SumOpened(rs \ { r })

\* finalize(); failAt = 0: no error, failAt = i: the i-th bundle_tar.add
\* raises OSError, failAt = n + 1: writing or adding the manifest raises
Finalize(r, failAt) ==
    /\ obj[r] = "ok"
    /\ SumOpened(Runs) < MaxFinalize
    /\ LET items == ItemsToPack(r)
           n == Len(items)
           manifest == ManifestOf(items)
           packed == [ i \in 1..n |-> MemberOf(r, items[i]) ]
       IN  /\ failAt \in 0..(n + 1)
           /\ IF failAt = 0
                THEN /\ cwdFile' = [ writer |-> r, complete |-> TRUE,
                                     members |-> Append(packed, ManifestMember(manifest)) ]
                     /\ WriteFile(r, BundleConfigPath(r), [ manifest |-> manifest ])
                     /\ fin' = [ fin EXCEPT ![r].opened = @ + 1, ![r].ok = @ + 1 ]
                ELSE /\ cwdFile' = [ writer |-> r, complete |-> FALSE,
                                     members |-> SubSeq(packed, 1, failAt - 1) ]
                     /\ UNCHANGED stagingFiles
                     /\ fin' = [ fin EXCEPT ![r].opened = @ + 1, ![r].failed = @ + 1 ]
    /\ UNCHANGED << obj, excludes, tempDir, tempDirPath, stagingDirs, bundled, fut,
                    worker, poolBroken, prior, outcome, nCalls, trees, archives, bundles,
                    resolved >>

(***************************************************************************)
(* Another process using the same name in the same working directory (a    *)
(* second bob run, constructed while no aggregate existed) creates the     *)
(* aggregate file with its finalize().                                     *)
(***************************************************************************)
OtherRunFinalize ==
    /\ ~BundleFileExists
    /\ cwdFile' = ForeignFile
    /\ UNCHANGED << obj, excludes, tempDir, tempDirPath, stagingDirs, stagingFiles,
                    bundled, fut, worker, poolBroken, prior, outcome, fin, nCalls,
                    trees, archives, bundles,
                    resolved >>

(***************************************************************************)
(* The bundler specification: any caller, any schedule of the workers.     *)
(***************************************************************************)
Init ==
    /\ InitBundler
    /\ trees = << >>
    /\ archives = << >>
    /\ bundles = NoUnbundler
    /\ resolved = NoLookup

Next ==
    \/ \E r \in Runs, ex \in ExcludeLists : Construct(r, ex)
    \/ \E r \in Runs, s \in Steps : BundleCall(r, s)
    \/ \E w \in Workers, r \in Runs, s \in Steps : StartEncode(w, r, s)
    \/ \E w \in Workers : EncodeOk(w)
    \/ \E w \in Workers : EncodeError(w)
    \/ \E w \in Workers : Sigint(w)
    \/ \E r \in Runs, s \in Steps : Resume(r, s)
    \/ \E r \in Runs, failAt \in 0..(Cardinality(Steps) + 1) : Finalize(r, failAt)
    \/ OtherRunFinalize

Spec == Init /\ [][Next]_vars

(***************************************************************************)
(* The offloader specification: the bundle() calls of one run with every   *)
(* way an offloaded encode can end, cancellation of the pending future     *)
(* included; no finalize().                                                *)
(***************************************************************************)
InitOff ==
    /\ Init
    /\ cwdFile = NoAggregate

NextOff ==
    \/ \E r \in Runs, ex \in ExcludeLists : Construct(r, ex)
    \/ \E r \in Runs, s \in Steps : BundleCall(r, s)
    \/ \E w \in Workers, r \in Runs, s \in Steps : StartEncode(w, r, s)
    \/ \E w \in Workers : EncodeOk(w)
    \/ \E w \in Workers : EncodeError(w)
    \/ \E w \in Workers : Sigint(w)
    \/ \E r \in Runs, s \in Steps, k \in CancelledKinds : Cancel(r, s, k)
    \/ \E r \in Runs, s \in Steps : Resume(r, s)

SpecOff == InitOff /\ [][NextOff]_vars

(***************************************************************************)
(* The encoder specification: two workspaces are encoded independently.    *)
(***************************************************************************)
\* the relative paths, contents and metadata the encoder inputs are drawn from
TreePaths == { << "b" >>, << "a", "/", "c" >> }

FileMetas ==
    { [ data |-> d, mtime |-> m[1], uid |-> m[2], gid |-> m[2], uname |-> m[3],
        gname |-> m[3], mode |-> m[4] ] :
        d \in { "d1", "d2" },
        m \in { << 0, 0, "root", 420 >>, << 9, 0, "root", 420 >>,
                << 0, 1000, "dev", 420 >>, << 0, 0, "root", 493 >> } }

TreeSet == UNION { [ P -> FileMetas ] : P \in (SUBSET TreePaths) \ { { } } }

InitEnc ==
    /\ InitBundler
    /\ cwdFile = NoAggregate
    /\ prior = "SIG_DFL"
    /\ \E t1, t2 \in TreeSet :
         \E o1 \in WalkOrders(t1), o2 \in WalkOrders(t2) :
            trees = << [ workspace |-> << "/", "w", "1" >>, tree |-> t1, order |-> o1 ],
                       [ workspace |-> << "/", "o", "2" >>, tree |-> t2, order |-> o2 ] >>
    /\ archives = << NoFile, NoFile >>
    /\ bundles = NoUnbundler
    /\ resolved = NoLookup

\* one complete encode of the i-th input
Encode(i) ==
    /\ archives[i] = NoFile
    /\ archives' = [ archives EXCEPT ![i] =
                       EncodeArchive(trees[i].workspace, trees[i].tree, trees[i].order) ]
    /\ UNCHANGED << trees, bundlerVars, resolverVars >>

NextEnc == \E i \in 1..2 : Encode(i)

SpecEnc == InitEnc /\ [][NextEnc]_vars

(***************************************************************************)
(* Unbundler                                                               *)
(***************************************************************************)
DotTar == << ".", "t", "a", "r" >>

\* os.getcwd() of the run
Cwd == << "c", "w", "d" >>

\* self.__bundleFile of the Bundler: <cwd>/<name>.tar
BundleFilePath == << Cwd, RunName \o DotTar >>

\* os.path.dirname(path), by components
Dirname(path) == SubSeq(path, 1, Len(path) - 1)

\* the list a manifest is dumped from and loaded as: one mapping per entry,
\* from the variant id hex string to the name and the digest
ParseManifest(manifest) ==
    [ i \in DOMAIN manifest |->
        (manifest[i].vid :> [ digestSHA256 |-> manifest[i].digestSHA256,
                              name |-> manifest[i].name ]) ]

\* the manifest and the packed per-package members of a complete aggregate
ManifestIn(agg) == agg.members[Len(agg.members)].content.manifest

PackedIn(agg) == SubSeq(agg.members, 1, Len(agg.members) - 1)

\* the aggregate of the run, as handed to Unbundler.__init__
LoadedBundle ==
    [ bundleFile |-> BundleFilePath, items |-> ParseManifest(ManifestIn(cwdFile)) ]

\* Unbundler.__init__(bundles): bs lists the mapping in insertion order
UnbundlerInit(bs) ==
    /\ ~bundles.constructed
    /\ bundles' = [ constructed |-> TRUE, map |-> bs ]
    /\ UNCHANGED << bundlerVars, encoderVars, resolved >>

\* a scan that keeps the last entry holding the key
RECURSIVE ScanItemsLast(_, _, _)
ScanItemsLast(items, key, i) ==
    IF i > Len(items) THEN 0
    ELSE LET later == ScanItemsLast(items, key, i + 1)
         IN  IF later # 0 THEN later
             ELSE IF key \in DOMAIN items[i] THEN i ELSE 0

\* for b in items: if variantId.hex() in b; the index of the entry the loop
\* returns from, 0 when it runs to its end
RECURSIVE ScanItems(_, _, _)
ScanItems(items, key, i) ==
    IF i > Len(items) THEN 0
    ELSE IF key \in DOMAIN items[i] THEN i
    ELSE ScanItems(items, key, i + 1)

\* a read of the first value of the entry, whatever its key
EntryDataAnyKey(b, key) == b[CHOOSE k \in DOMAIN b : \A k2 \in DOMAIN b : k = k2 \/ StrLess(k, k2)]

\* data = b.get(variantId.hex())
EntryData(b, key) == b[key]

\* for bundleFile, items in self.__bundles.items(), from the k-th bundle on
RECURSIVE ScanBundles(_, _, _)
ScanBundles(bs, variantId, k) ==
    IF k > Len(bs) THEN [ kind |-> "None" ]
    ELSE LET i == ScanItems(bs[k].items, Hex(variantId), 1)
         IN  IF i # 0
               THEN LET data == EntryData(bs[k].items[i], Hex(variantId))
                    IN  [ kind |-> "found",
                          bundleFile |-> bs[k].bundleFile,
                          path |-> Dirname(bs[k].bundleFile)
                                     \o << data.name, Hex(variantId), BundleTgz >>,
                          digest |-> data.digestSHA256 ]
               ELSE ScanBundles(bs, variantId, k + 1)

\* Unbundler.getFromBundle(variantId)
GetFromBundle(variantId) ==
    /\ bundles.constructed
    /\ resolved' = [ variantId |-> variantId ] @@ ScanBundles(bundles.map, variantId, 1)
    /\ UNCHANGED << bundlerVars, encoderVars, bundles >>

(***************************************************************************)
(* The resolver specification: a run bundles and finalizes without errors, *)
(* then an Unbundler is constructed from its aggregate and from aggregates *)
(* of other runs, and variant ids are looked up.                           *)
(***************************************************************************)
\* the digest recorded in another run's manifest for an archive of one file
OtherDigest(d) ==
    Sha256Hex(EncodeArchive(<< "/", "o" >>,
                            (<< "k" >> :> [ data |-> d, mtime |-> 0, uid |-> 0, gid |-> 0,
                                            uname |-> "root", gname |-> "root",
                                            mode |-> 420 ]),
                            << << "k" >> >>))

OtherEntry(names, d) == [ digestSHA256 |-> OtherDigest(d), name |-> names ]

\* aggregates of other runs with their manifests as the schema admits them:
\* an empty mapping, a mapping with two keys, the same key in two entries
OtherBundles ==
    { [ bundleFile |-> << << "m", "n", "t" >>, << "o", "1" >> \o DotTar >>,
        items |-> << << >>,
                     (Hex(<< 177 >>) :> OtherEntry(<< "y" >>, "e1"))
                        @@ (Hex(<< 42 >>) :> OtherEntry(<< "z" >>, "e2")),
                     (Hex(<< 177 >>) :> OtherEntry(<< "x" >>, "e3")) >> ],
      [ bundleFile |-> << << "m", "n", "t" >>, << "o", "2" >> \o DotTar >>,
        items |-> << (Hex(<< 177 >>) :> OtherEntry(<< "q" >>, "e4")) >> ] }

\* the bundles an Unbundler may be constructed from in the current state
AvailableBundles ==
    OtherBundles \cup (IF cwdFile.complete /\ cwdFile.writer \in Runs
                         THEN { LoadedBundle } ELSE { })

\* the mappings of at most two bundles, in every insertion order
SuppliedBundles ==
    { << >> } \cup { << b >> : b \in AvailableBundles }
              \cup { << p[1], p[2] >> :
                        p \in { q \in AvailableBundles \X AvailableBundles :
                                   q[1].bundleFile # q[2].bundleFile } }

\* the variant ids looked up: those of the steps and one no run has bundled
LookupIds == { VariantId(s) : s \in Steps } \cup { << 255 >> }

InitRes ==
    /\ InitBundler
    /\ cwdFile = NoAggregate
    /\ prior = "SIG_DFL"
    /\ trees = << >>
    /\ archives = << >>
    /\ bundles = NoUnbundler
    /\ resolved = NoLookup

\* the run before the Unbundler exists
RunStep ==
    /\ ~bundles.constructed
    /\ \/ \E r \in Runs : Construct(r, << >>)
       \/ \E r \in Runs, s \in Steps : BundleCall(r, s)
       \/ \E w \in Workers, r \in Runs, s \in Steps : StartEncode(w, r, s)
       \/ \E w \in Workers : EncodeOk(w)
       \/ \E r \in Runs, s \in Steps : Resume(r, s)
       \/ \E r \in Runs : Finalize(r, 0)

NextRes ==
    \/ RunStep
    \/ /\ cwdFile.complete /\ cwdFile.writer \in Runs
       /\ \E bs \in SuppliedBundles : UnbundlerInit(bs)
    \/ \E v \in LookupIds : GetFromBundle(v)

SpecRes == InitRes /\ [][NextRes]_vars

(***************************************************************************)
(* Vocabulary of the properties.                                           *)
(***************************************************************************)
\* the steps whose bundle() call on run r has returned normally with a record
Succeeded(r) == { s \in Steps : "ok" \in outcome[r][s] }

\* the steps whose bundle() call failed after its encode was submitted
FailureKinds == { "BuildError:encode", "BuildError:interrupted", "KeyboardInterrupt" }

Failed(r) == { s \in Steps : outcome[r][s] \cap FailureKinds # { } }

\* no bundle() call of run r is suspended
NoneInFlight(r) == \A s \in Steps : fut[r][s].kind = "none"

\* the step taken is a finalize() of run r that returned normally
FinalizeOkStep(r) == fin'[r].ok = fin[r].ok + 1

\* the member path finalize() uses for the bundle.tgz of step s
ArcnameOf(s) == << RunName, RecipeName(s), Hex(VariantId(s)), BundleTgz >>

ManifestSorted(m) == \A i \in 1..(Len(m) - 1) : StrLess(m[i].vid, m[i + 1].vid)

\* the package name of s matches at least one exclude pattern of run r
MatchesExclude(r, s) ==
    \E i \in DOMAIN excludes[r] : FnMatch(PackageName(s), excludes[r][i])

(***************************************************************************)
(* C1: a construction that fails because <cwd>/<name>.tar exists has       *)
(* created neither the temporary staging root nor the <name> directory     *)
(* inside it.                                                              *)
(***************************************************************************)
C1_FailedConstructionCreatesNothing ==
    \A r \in Runs : obj[r] = "failed" => ~tempDir[r] /\ ~tempDirPath[r]

(***************************************************************************)
(* C2 as claimed: when finalize() returns, the manifest has one entry per  *)
(* successful bundle() call (the calls are for distinct (recipe, variant   *)
(* id) pairs, also when two pairs share the variant id), in ascending      *)
(* order of the variant id hex string.                                     *)
(***************************************************************************)
C2_OneEntryPerPair ==
    [][ \A r \in Runs : FinalizeOkStep(r) =>
          /\ Len(ManifestIn(cwdFile')) = Cardinality(Succeeded(r))
          /\ ManifestSorted(ManifestIn(cwdFile')) ]_vars

(***************************************************************************)
(* C2 amended: when finalize() returns, the manifest has one entry per     *)
(* distinct variant id among the successful bundle() calls, so N entries   *)
(* for N calls with N distinct variant ids, in strictly ascending order of *)
(* the variant id hex string.                                              *)
(***************************************************************************)
C2_OneEntryPerVariantId ==
    [][ \A r \in Runs : FinalizeOkStep(r) =>
          /\ Len(ManifestIn(cwdFile')) =
                 Cardinality({ Hex(VariantId(s)) : s \in Succeeded(r) })
          /\ { e.vid : e \in Range(ManifestIn(cwdFile')) } =
                 { Hex(VariantId(s)) : s \in Succeeded(r) }
          /\ ManifestSorted(ManifestIn(cwdFile')) ]_vars

\* a finalized manifest of two entries whose artifacts were recorded in
\* descending order of variant id
C2_Witness ==
    \E r \in Runs :
        /\ cwdFile.writer = r /\ cwdFile.complete
        /\ Len(bundled[r]) = 2
        /\ StrLess(bundled[r][2][1], bundled[r][1][1])
        /\ Len(ManifestIn(cwdFile)) = 2
        /\ Cardinality(Succeeded(r)) = 2

(***************************************************************************)
(* C3: a bundle() call for a package whose name matches an exclude pattern *)
(* returns without error and changes nothing: no staging directory, no     *)
(* submitted encode, the artifact map unchanged, and no entry for the      *)
(* package in any manifest or aggregate finalize() writes.                 *)
(***************************************************************************)
C3_ExcludedLeavesNoTrace ==
    \A r \in Runs, s \in Steps :
        (obj[r] = "ok" /\ MatchesExclude(r, s)) =>
            /\ outcome[r][s] \subseteq { "skipped" }
            /\ Dest(r, s) \notin stagingDirs[r]
            /\ BundleFileOf(r, s) \notin DOMAIN stagingFiles[r]
            /\ fut[r][s].kind = "none"
            /\ \A i \in DOMAIN bundled[r] : bundled[r][i][2].package # RecipeName(s)
            /\ cwdFile.writer = r =>
                 \A i \in DOMAIN cwdFile.members :
                    /\ cwdFile.members[i].arcname # ArcnameOf(s)
                    /\ (i = Len(cwdFile.members) /\ cwdFile.complete) =>
                          \A e \in Range(ManifestIn(cwdFile)) : e.name # RecipeName(s)

C3_ExcludedCallChangesNothing ==
    [][ \A r \in Runs, s \in Steps :
          (outcome'[r][s] # outcome[r][s] /\ MatchesExclude(r, s)) =>
              /\ outcome'[r][s] = { "skipped" }
              /\ UNCHANGED << cwdFile, stagingDirs, stagingFiles, bundled, fut, worker,
                              poolBroken >> ]_vars

C3_Excluded == []C3_ExcludedLeavesNoTrace /\ C3_ExcludedCallChangesNothing

\* an excluded package was skipped and a later finalize() packed another one
C3_Witness ==
    \E r \in Runs, s \in Steps :
        /\ "skipped" \in outcome[r][s]
        /\ cwdFile.writer = r /\ cwdFile.complete
        /\ Len(cwdFile.members) >= 2

(***************************************************************************)
(* C4: when SIGINT aborts an encode that is in progress, the awaiting      *)
(* bundle() call fails with the bundling-interrupted BuildError and with   *)
(* no other exception, and the encodes on other workers are not affected.  *)
(***************************************************************************)
C4_InterruptReportedAsInterrupted ==
    [][ \A r \in Runs, s \in Steps :
          /\ (fut[r][s].kind = "running" /\ fut'[r][s].kind = "KeyboardInterrupt") =>
                \A r2 \in Runs, s2 \in Steps :
                    << r2, s2 >> # << r, s >> => fut'[r2][s2] = fut[r2][s2]
          /\ (fut[r][s].kind = "KeyboardInterrupt" /\ fut'[r][s].kind = "none") =>
                outcome'[r][s] = outcome[r][s] \cup { "BuildError:interrupted" } ]_vars

(***************************************************************************)
(* C5 as claimed: on every exit path of _bundle the SIGINT disposition of  *)
(* the process is again what it was before the encode started.             *)
(***************************************************************************)
C5_DispositionRestored ==
    [][ \A w \in Workers :
          (worker[w].phase = "try" /\ worker'[w].phase = "idle") =>
              worker'[w].sigint = worker'[w].before ]_vars

(***************************************************************************)
(* C5 amended: on every exit path of _bundle (normal return, archive or    *)
(* filesystem error, interruption) the SIGINT disposition of the process   *)
(* is SIG_DFL, whatever it was before the encode started.                  *)
(***************************************************************************)
C5_DispositionDefault ==
    [][ \A w \in Workers :
          (worker[w].phase = "try" /\ worker'[w].phase = "idle") =>
              worker'[w].sigint = "SIG_DFL" ]_vars

\* encodes have ended on all three paths, one of them on a worker whose
\* disposition before the encode was not SIG_DFL
C5_Witness ==
    /\ \E w \in Workers : /\ worker[w].phase = "idle"
                          /\ worker[w].before = "SIG_IGN"
                          /\ worker[w].sigint = "SIG_DFL"
    /\ \A k \in { "ok", "BuildError", "KeyboardInterrupt" } :
          \E r \in Runs, s \in Steps : fut[r][s].kind = k

(***************************************************************************)
(* C6: finalize() never replaces or truncates an aggregate file that this  *)
(* run did not create, also when the file appeared after construction.     *)
(***************************************************************************)
C6_NeverOverwritesForeignAggregate ==
    [][ \A r \in Runs :
          (fin'[r].opened = fin[r].opened + 1 /\ BundleFileExists /\ cwdFile.writer # r)
              => cwdFile' = cwdFile ]_vars

(***************************************************************************)
(* C7: after finalize() has run, no bundle() call of the run adds a        *)
(* staging subdirectory or an artifact-map entry, and no further           *)
(* finalize() writes the aggregate archive again.                          *)
(***************************************************************************)
C7_FinalizeOnceThenNoCollecting ==
    [][ \A r \in Runs :
          fin[r].ok >= 1 =>
              /\ stagingDirs'[r] = stagingDirs[r]
              /\ bundled'[r] = bundled[r]
              /\ fin'[r].opened = fin[r].opened ]_vars

(***************************************************************************)
(* C8 as claimed: when a finalize() runs after all bundle() calls of a     *)
(* batch have ended, some failed and the others successful, the aggregate  *)
(* and the manifest contain exactly the successful packages.               *)
(***************************************************************************)
PairsOf(S) == { << RecipeName(s), Hex(VariantId(s)) >> : s \in S }

BatchFinalized(r) ==
    /\ FinalizeOkStep(r)
    /\ NoneInFlight(r)
    /\ Failed(r) # { }
    /\ Succeeded(r) # { }

C8_ExactlyTheSuccessful ==
    [][ \A r \in Runs : BatchFinalized(r) =>
          /\ { m.arcname : m \in Range(PackedIn(cwdFile')) } =
                 { ArcnameOf(s) : s \in Succeeded(r) }
          /\ { << e.name, e.vid >> : e \in Range(ManifestIn(cwdFile')) } =
                 PairsOf(Succeeded(r)) ]_vars

(***************************************************************************)
(* C8 amended: such a finalize() packs only successful packages, exactly   *)
(* one per variant id among the successful calls (all of them when their   *)
(* variant ids are pairwise distinct), each as a complete bundle.tgz with  *)
(* its manifest entry; a failed package has no manifest entry and its      *)
(* bundle.tgz is not packed.                                               *)
(***************************************************************************)
C8_OnlySuccessfulOnePerVariantId ==
    [][ \A r \in Runs : BatchFinalized(r) =>
          LET man == ManifestIn(cwdFile')
              packed == PackedIn(cwdFile')
          IN  /\ { << e.name, e.vid >> : e \in Range(man) } \subseteq PairsOf(Succeeded(r))
              /\ { e.vid : e \in Range(man) } = { Hex(VariantId(s)) : s \in Succeeded(r) }
              /\ Len(man) = Cardinality({ Hex(VariantId(s)) : s \in Succeeded(r) })
              /\ Len(packed) = Len(man)
              /\ \A i \in DOMAIN packed :
                    /\ packed[i].arcname = << RunName, man[i].name, man[i].vid, BundleTgz >>
                    /\ packed[i].content # Partial
              /\ \A s \in Failed(r) :
                    /\ ArcnameOf(s) \notin { m.arcname : m \in Range(packed) }
                    /\ << RecipeName(s), Hex(VariantId(s)) >> \notin
                           { << e.name, e.vid >> : e \in Range(man) } ]_vars

\* a batch of three: two packed, the failed one left partial in the staging area
C8_Witness ==
    \E r \in Runs, f \in Steps :
        /\ cwdFile.writer = r /\ cwdFile.complete
        /\ NoneInFlight(r)
        /\ f \in Failed(r)
        /\ BundleFileOf(r, f) \in DOMAIN stagingFiles[r]
        /\ stagingFiles[r][BundleFileOf(r, f)] = Partial
        /\ Cardinality(Succeeded(r)) = 2
        /\ Len(PackedIn(cwdFile)) = 2

(***************************************************************************)
(* C9: the aggregate file is written only by a successful finalize(): no   *)
(* other step of the run creates or changes it, and whenever it exists     *)
(* because of this run, a finalize() of the run has completed (a           *)
(* finalize() that fails part-way leaves no aggregate file behind).        *)
(***************************************************************************)
C9_AggregateOnlyFromSuccessfulFinalize ==
    /\ [](\A r \in Runs : cwdFile.writer = r => (fin[r].ok >= 1 /\ cwdFile.complete))
    /\ [][ (fin' = fin /\ cwdFile' # cwdFile) => cwdFile'.writer \notin Runs ]_vars

(***************************************************************************)
(* C10 as claimed: two encodes of trees with the same relative paths and   *)
(* the same bytes per file give byte-identical archives and equal digests, *)
(* whatever the modification times, owners and permission bits.            *)
(***************************************************************************)
BothEncoded == archives[1] # NoFile /\ archives[2] # NoFile

SameContent ==
    /\ RelPaths(trees[1].tree) = RelPaths(trees[2].tree)
    /\ \A p \in RelPaths(trees[1].tree) : trees[1].tree[p].data = trees[2].tree[p].data

SameModes ==
    \A p \in RelPaths(trees[1].tree) \cap RelPaths(trees[2].tree) :
        trees[1].tree[p].mode = trees[2].tree[p].mode

C10_MetadataIndependent ==
    (BothEncoded /\ SameContent) =>
        /\ archives[1] = archives[2]
        /\ Sha256Hex(archives[1]) = Sha256Hex(archives[2])

(***************************************************************************)
(* C10 amended: two encodes of trees with the same relative paths, the     *)
(* same bytes and the same permission bits per file give byte-identical    *)
(* archives and equal digests, whatever the modification times, the        *)
(* owner/group ids and names, the workspace location and the order in      *)
(* which the files are found; permission bits are kept in the archive, so  *)
(* trees that differ in them encode differently.                           *)
(***************************************************************************)
C10_DeterministicUpToMode ==
    (BothEncoded /\ SameContent) =>
        /\ SameModes => /\ archives[1] = archives[2]
                        /\ Sha256Hex(archives[1]) = Sha256Hex(archives[2])
        /\ ~SameModes => Sha256Hex(archives[1]) # Sha256Hex(archives[2])

\* two trees of two files, found in different orders, with different
\* timestamps or owners, encoded to the same archive
C10_Witness ==
    /\ BothEncoded /\ SameContent /\ SameModes
    /\ Cardinality(RelPaths(trees[1].tree)) = 2
    /\ trees[1].order # trees[2].order
    /\ \E p \in RelPaths(trees[1].tree) :
          /\ trees[1].tree[p].mtime # trees[2].tree[p].mtime
    /\ \E p \in RelPaths(trees[1].tree) :
          /\ trees[1].tree[p].uid # trees[2].tree[p].uid
    /\ archives[1] = archives[2]

(***************************************************************************)
(* C11: for every artifact finalize() packed into the aggregate B, the     *)
(* path getFromBundle returns for its variant id, taken relative to the    *)
(* directory containing B, equals the member path under which finalize()   *)
(* stored the artifact's bundle.tgz inside B.                              *)
(***************************************************************************)
\* the lookup found the variant id in the aggregate of the run
ResolvedFromRun ==
    /\ resolved.kind = "found"
    /\ resolved.bundleFile = BundleFilePath
    /\ cwdFile.complete /\ cwdFile.writer \in Runs

C11_ResolvedPathIsMemberPath ==
    ResolvedFromRun =>
        \E i \in DOMAIN PackedIn(cwdFile) :
            /\ ManifestIn(cwdFile)[i].vid = Hex(resolved.variantId)
            /\ RelTo(resolved.path, Dirname(BundleFilePath)) = PackedIn(cwdFile)[i].arcname

(***************************************************************************)
(* C12: for every variant id that is a key of some manifest entry of a     *)
(* supplied bundle, getFromBundle returns a triple whose digest is the     *)
(* digestSHA256 recorded for that id in the manifest of the bundle the     *)
(* triple names; for a variant id that is a key of no entry of any         *)
(* supplied bundle it returns None, without an error.                      *)
(***************************************************************************)
\* the digests recorded for key in the manifest of the bundle stored at path
RecordedDigests(path, key) ==
    UNION { { b.items[i][key].digestSHA256 :
                i \in { j \in DOMAIN b.items : key \in DOMAIN b.items[j] } } :
            b \in { c \in Range(bundles.map) : c.bundleFile = path } }

\* key is a key of some manifest entry of some supplied bundle
KeyPresent(key) ==
    \E k \in DOMAIN bundles.map : \E i \in DOMAIN bundles.map[k].items :
        key \in DOMAIN bundles.map[k].items[i]

C12_RoundTrip ==
    resolved.kind # "none" =>
        LET key == Hex(resolved.variantId)
        IN  /\ KeyPresent(key) =>
                 /\ resolved.kind = "found"
                 /\ resolved.digest \in RecordedDigests(resolved.bundleFile, key)
            /\ ~KeyPresent(key) => resolved.kind = "None"

\* a variant id found in the second of two supplied bundles, in the manifest
\* the run's finalize() wrote
C12_Witness ==
    /\ ResolvedFromRun
    /\ Len(bundles.map) = 2
    /\ bundles.map[2].bundleFile = BundleFilePath
    /\ resolved.digest \in { e.digestSHA256 : e \in Range(ManifestIn(cwdFile)) }

(***************************************************************************)
(* C13: for every manifest entry a finalize() writes, the recorded         *)
(* digestSHA256 is the SHA-256 of the completed bundle.tgz that this       *)
(* finalize() packs for the same recipe name and variant id.               *)
(***************************************************************************)
C13_DigestOfPackedArchive ==
    [][ \A r \in Runs : FinalizeOkStep(r) =>
          LET man == ManifestIn(cwdFile')
              packed == PackedIn(cwdFile')
          IN  \A i \in DOMAIN man :
                \E j \in DOMAIN packed :
                    /\ packed[j].arcname = << RunName, man[i].name, man[i].vid, BundleTgz >>
                    /\ packed[j].content # Partial
                    /\ man[i].digestSHA256 = Sha256Hex(packed[j].content) ]_vars

\* a finalized aggregate of two archives with different digests, written
\* while another encode was still running
C13_Witness ==
    \E r \in Runs :
        /\ cwdFile.writer = r /\ cwdFile.complete
        /\ Len(ManifestIn(cwdFile)) = 2
        /\ ManifestIn(cwdFile)[1].digestSHA256 # ManifestIn(cwdFile)[2].digestSHA256
        /\ \A i \in 1..2 :
              ManifestIn(cwdFile)[i].digestSHA256 = Sha256Hex(PackedIn(cwdFile)[i].content)
        /\ \E s \in Steps : /\ BundleFileOf(r, s) \in DOMAIN stagingFiles[r]
                            /\ stagingFiles[r][BundleFileOf(r, s)] = Partial

(***************************************************************************)
(* C14: when a variant id is a manifest key in more than one supplied      *)
(* bundle, or in more than one entry of one bundle, getFromBundle returns  *)
(* the match of the first such bundle in the order supplied and of the     *)
(* first matching entry in that bundle's list; the bundle path, the name   *)
(* in the archive path and the digest all come from that one entry.        *)
(***************************************************************************)
\* the entries of the k-th supplied bundle that have the key
EntriesWith(k, key) ==
    { i \in DOMAIN bundles.map[k].items : key \in DOMAIN bundles.map[k].items[i] }

C14_FirstMatchWins ==
    (resolved.kind # "none" /\ KeyPresent(Hex(resolved.variantId))) =>
        LET key == Hex(resolved.variantId)
            k == CHOOSE k1 \in DOMAIN bundles.map :
                    /\ EntriesWith(k1, key) # { }
                    /\ \A k2 \in 1..(k1 - 1) : EntriesWith(k2, key) = { }
            i == CHOOSE i1 \in EntriesWith(k, key) :
                    \A i2 \in EntriesWith(k, key) : i1 <= i2
            entry == bundles.map[k].items[i][key]
        IN  /\ resolved.kind = "found"
            /\ resolved.bundleFile = bundles.map[k].bundleFile
            /\ resolved.path = Dirname(bundles.map[k].bundleFile)
                                  \o << entry.name, key, BundleTgz >>
            /\ resolved.digest = entry.digestSHA256

\* the variant id is listed by both supplied bundles and by two entries of
\* the first one, with different names and digests
C14_Witness ==
    /\ resolved.kind = "found"
    /\ Len(bundles.map) = 2
    /\ Cardinality(EntriesWith(1, Hex(resolved.variantId))) = 2
    /\ EntriesWith(2, Hex(resolved.variantId)) # { }
    /\ resolved.bundleFile = bundles.map[1].bundleFile
    /\ \E i \in EntriesWith(1, Hex(resolved.variantId)) :
          bundles.map[1].items[i][Hex(resolved.variantId)].digestSHA256 # resolved.digest

(***************************************************************************)
(* C15: for concurrent bundle() calls of pairwise distinct pairs with      *)
(* pairwise distinct variant ids, in every interleaving of the encodes and *)
(* every completion order: each call writes only inside its own staging    *)
(* subdirectory, the artifact map changes only when the orchestrating flow *)
(* resumes a call whose encode succeeded, and once all calls have ended    *)
(* the map holds exactly one entry per successful call, so the manifest a  *)
(* finalize() then writes is fixed by the set of successful calls.         *)
(***************************************************************************)
\* the steps whose bundle() call got as far as creating its directory
Called(r) == { s \in Steps : Dest(r, s) \in stagingDirs[r] }

\* no pair was bundled twice and no two bundled pairs share the variant id
DistinctCalls(r) ==
    /\ \A s \in Steps : "FileExistsError" \notin outcome[r][s]
    /\ \A s, t \in Called(r) : s # t => VariantId(s) # VariantId(t)

\* the paths of the staging area created or rewritten by the step
Written(r) ==
    { p \in DOMAIN stagingFiles'[r] :
        p \notin DOMAIN stagingFiles[r] \/ stagingFiles'[r][p] # stagingFiles[r][p] }

\* the manifest entry of a successful call, whatever order the walk found
\* the files in
EntryOfStep(s) ==
    [ vid |-> Hex(VariantId(s)), name |-> RecipeName(s),
      digestSHA256 |-> Sha256Hex(EncodeArchive(WorkspacePath(s), WorkspaceTree(s),
                           CHOOSE o \in WalkOrders(WorkspaceTree(s)) : TRUE)) ]

C15_OneEntryPerCall ==
    \A r \in Runs :
        (NoneInFlight(r) /\ DistinctCalls(r)) =>
            /\ Len(bundled[r]) = Cardinality(Succeeded(r))
            /\ \A s \in Succeeded(r) :
                  \E i \in DOMAIN bundled[r] :
                      /\ bundled[r][i][1] = Hex(VariantId(s))
                      /\ bundled[r][i][2].package = RecipeName(s)
                      /\ bundled[r][i][2].bundleFile = Dest(r, s) \o << BundleTgz >>

C15_IsolatedSteps ==
    [][ \A r \in Runs :
          /\ \A p \in Written(r) :
                \/ FinalizeOkStep(r) /\ p = BundleConfigPath(r)
                \/ \E s \in Steps :
                      /\ p = Dest(r, s) \o << BundleTgz >>
                      /\ fut[r][s].kind \in { "queued", "running" }
                      /\ fut'[r][s] # fut[r][s]
          /\ bundled'[r] # bundled[r] =>
                \E s \in Steps :
                    /\ fut[r][s].kind = "ok" /\ fut'[r][s].kind = "none"
                    /\ "ok" \in outcome'[r][s]
          /\ (FinalizeOkStep(r) /\ NoneInFlight(r) /\ DistinctCalls(r)) =>
                /\ ManifestSorted(ManifestIn(cwdFile'))
                /\ Range(ManifestIn(cwdFile')) = { EntryOfStep(s) : s \in Succeeded(r) }
                /\ Len(ManifestIn(cwdFile')) = Cardinality(Succeeded(r)) ]_vars

C15_Concurrent == []C15_OneEntryPerCall /\ C15_IsolatedSteps

\* two calls with different variant ids, suspended together, resumed in
\* descending order of variant id, then finalized
C15_Witness ==
    \E r \in Runs :
        /\ NoneInFlight(r) /\ DistinctCalls(r)
        /\ Called(r) = Succeeded(r)
        /\ Cardinality(Called(r)) = 2
        /\ cwdFile.writer = r /\ cwdFile.complete
        /\ Len(ManifestIn(cwdFile)) = 2 /\ Len(bundled[r]) = 2
        /\ ManifestIn(cwdFile)[1].vid = bundled[r][2][1]
        /\ ManifestIn(cwdFile)[2].vid = bundled[r][1][1]
        /\ \A w \in Workers : worker[w].before = InstalledHandler

(***************************************************************************)
(* C16: when the offloaded encode is cancelled or the worker pool is       *)
(* broken, bundle() fails with the bundling-interrupted BuildError and not *)
(* with the raw pool error, starts no second encode, and leaves the        *)
(* artifact map as it was before the call.                                 *)
(***************************************************************************)
C16_CancelledOrBrokenIsInterrupted ==
    [][ \A r \in Runs, s \in Steps :
          (fut[r][s].kind \in CancelledKinds \cup { "BrokenProcessPool" }
             /\ fut'[r][s].kind = "none") =>
              /\ outcome'[r][s] = outcome[r][s] \cup { "BuildError:interrupted" }
              /\ UNCHANGED << bundled, worker, stagingDirs, stagingFiles >> ]_vars

(***************************************************************************)
(* C17: when an encode fails with an archive or filesystem error, the      *)
(* awaiting bundle() call fails with the BuildError of the encode (not the *)
(* interrupted one), the artifact map gets no entry for the package, the   *)
(* destination file and the staging subdirectory stay as the encode left   *)
(* them, and the other calls in flight are not touched: they complete and  *)
(* are recorded.                                                           *)
(***************************************************************************)
\* everything of the calls other than bundle(s) of run r is unchanged
OthersUntouched(r, s) ==
    /\ \A r2 \in Runs, s2 \in Steps :
          << r2, s2 >> # << r, s >> =>
              fut'[r2][s2] = fut[r2][s2] /\ outcome'[r2][s2] = outcome[r2][s2]
    /\ \A w \in Workers : worker[w].task # << r, s >> => worker'[w] = worker[w]
    /\ poolBroken' = poolBroken

C17_FailedCallKeepsNothing ==
    \A r \in Runs, s \in Steps :
        "BuildError:encode" \in outcome[r][s] =>
            /\ "ok" \notin outcome[r][s]
            /\ Dest(r, s) \in stagingDirs[r]
            /\ \A i \in DOMAIN bundled[r] :
                  bundled[r][i][2].bundleFile # BundleFileOf(r, s)

C17_EncodeErrorStep ==
    [][ \A r \in Runs, s \in Steps :
          /\ (fut[r][s].kind = "running" /\ fut'[r][s].kind = "BuildError") =>
                /\ UNCHANGED << stagingDirs, stagingFiles, bundled, outcome >>
                /\ OthersUntouched(r, s)
          /\ (fut[r][s].kind = "BuildError" /\ fut'[r][s].kind = "none") =>
                /\ outcome'[r][s] = outcome[r][s] \cup { "BuildError:encode" }
                /\ UNCHANGED << stagingDirs, stagingFiles, bundled, worker >>
                /\ OthersUntouched(r, s) ]_vars

C17_EncodeFailure == []C17_FailedCallKeepsNothing /\ C17_EncodeErrorStep

\* one call failed in its encode and left the partial file; two other calls
\* completed and are recorded
C17_Witness ==
    \E r \in Runs, s \in Steps :
        /\ outcome[r][s] = { "BuildError:encode" }
        /\ BundleFileOf(r, s) \in DOMAIN stagingFiles[r]
        /\ stagingFiles[r][BundleFileOf(r, s)] = Partial
        /\ \A t \in Steps \ { s } : "ok" \in outcome[r][t]
        /\ Len(bundled[r]) = 2

(***************************************************************************)
(* C18: in every aggregate a finalize() has written to its end, whatever   *)
(* successful, failed, excluded or still suspended bundle() calls came     *)
(* before it, the manifest entries and the packed per-package archives     *)
(* correspond one to one (the i-th entry names the i-th member, and no two *)
(* members share a path), and the manifest file is the last member.        *)
(***************************************************************************)
C18_ManifestMatchesMembers ==
    \A r \in Runs :
        (cwdFile.writer = r /\ cwdFile.complete) =>
            LET n == Len(cwdFile.members)
                man == ManifestIn(cwdFile)
                packed == PackedIn(cwdFile)
            IN  /\ n >= 1
                /\ cwdFile.members[n].arcname = << RunName, BundleConfig >>
                /\ Len(man) = n - 1
                /\ \A i \in DOMAIN packed :
                      /\ packed[i].arcname =
                             << RunName, man[i].name, man[i].vid, BundleTgz >>
                      /\ packed[i].arcname # << RunName, BundleConfig >>
                      /\ \A j \in DOMAIN packed :
                            packed[i].arcname = packed[j].arcname => i = j

\* an aggregate of two archives and the manifest, written while a third
\* call was suspended with its encode running
C18_Witness ==
    \E r \in Runs :
        /\ cwdFile.writer = r /\ cwdFile.complete
        /\ Len(cwdFile.members) = 3
        /\ \E s \in Steps : /\ fut[r][s].kind = "running"
                            /\ stagingFiles[r][BundleFileOf(r, s)] = Partial

(***************************************************************************)
(* C19: a bundle() call for a pair whose staging subdirectory already      *)
(* exists (the first call for the pair is suspended, has succeeded or has  *)
(* failed) fails at the creation of the subdirectory with FileExistsError, *)
(* before any encode is submitted, and leaves the artifact map, the first  *)
(* call's bundle.tgz and its recorded digest unchanged.                    *)
(***************************************************************************)
C19_RepeatedCallFailsEarly ==
    [][ \A r \in Runs, s \in Steps :
          Dest(r, s) \in stagingDirs[r] =>
              /\ fut'[r][s].kind = "queued" => fut[r][s].kind = "queued"
              /\ (nCalls' = nCalls + 1 /\ outcome'[r][s] # outcome[r][s]) =>
                    /\ outcome'[r][s] = outcome[r][s] \cup { "FileExistsError" }
                    /\ UNCHANGED << fut, worker, poolBroken, stagingDirs, stagingFiles,
                                    bundled >> ]_vars

\* the pair was bundled twice: the first call succeeded and its archive and
\* digest are in place, the second failed at the directory
C19_Witness ==
    \E r \in Runs, s \in Steps :
        /\ { "ok", "FileExistsError" } \subseteq outcome[r][s]
        /\ \E i \in DOMAIN bundled[r] :
              /\ bundled[r][i][2].bundleFile = BundleFileOf(r, s)
              /\ bundled[r][i][2].digest = Sha256Hex(stagingFiles[r][BundleFileOf(r, s)])
        /\ \E t \in Steps : "BuildError:encode" \in outcome[r][t]

====
